---- MODULE Spec2Model ----
(***************************************************************************)
(* A model of package workpool (worker_pool.go): a WorkPool runs Workers   *)
(* goroutines that call Handler until it returns false or the abort        *)
(* channel is closed; Run waits for them on a sync.WaitGroup and then runs *)
(* the deferred Close; Cancel closes the abort channel.                    *)
(*                                                                         *)
(* Channels are identified by the order of their make(): 0 is the nil      *)
(* channel, 1 the first channel made, and so on.  closedCh is the set of   *)
(* channels that have been closed.  An unrecovered panic ends the process: *)
(* once fault # "none" no goroutine takes another step.                    *)
(***************************************************************************)
EXTENDS Integers, FiniteSets

\* Bounds of the model.
MaxWorkers == 2
MaxCalls == 2
MaxCancels == 2
MaxRuns == 2

WorkerIds == 1..MaxWorkers
CancelIds == 1..MaxCancels

VARIABLES
    p,          \* the WorkPool: [Handler, Workers, abort, Close]; Close is TRUE
                \* iff non-nil, Handler is the behaviour of the handler function
    ctor,       \* how p was built: "New", "NewWithClose" or "struct"
    chans,      \* number of channels made so far
    closedCh,   \* the channels closed so far
    runPc,      \* position of the goroutine calling Run
    runs,       \* number of Run calls started
    signaledAtCall, \* the abort channel was closed when the current Run was entered
    deferClose, \* Run has deferred p.Close
    wg,         \* the WaitGroup counter of the current Run
    i,          \* Run's spawn loop counter
    wpc,        \* position of each worker goroutine of the current Run
    calls,      \* handler invocations started by each worker (saturates at MaxCalls)
    foundWork,  \* each worker's last handler result: "unset", "true", "false"
    lateCalls,  \* handler invocations each worker started with the abort channel
                \* already closed (saturates at MaxCalls)
    exitReason, \* how each worker ended: "none", "abort", "false", "panic"
    closeCalls, \* invocations of Close in the current Run
    cpc,        \* outcome of each Cancel call: "idle", "done", "panicked"
    fault       \* "none", or the panic that ended the process

vars == <<p, ctor, chans, closedCh, runPc, runs, signaledAtCall, deferClose, wg, i,
          wpc, calls, lateCalls, foundWork, exitReason, closeCalls, cpc, fault>>

runVars == <<runPc, runs, signaledAtCall, deferClose, wg, i, closeCalls>>
workerVars == <<wpc, calls, lateCalls, foundWork, exitReason>>

\* ---------------------------------------------------------------- pool
\* A faulty New that forgets to make the abort channel.
NewNoAbort(numWorkers, handler) ==
    [Handler |-> handler, Workers |-> numWorkers, abort |-> 0, Close |-> FALSE]

\* New: abort is a freshly made channel, Close is nil.
New(numWorkers, handler) ==
    [Handler |-> handler, Workers |-> numWorkers, abort |-> 1, Close |-> FALSE]

\* NewWithClose: abort is a freshly made channel, Close is set.
NewWithClose(numWorkers, handler) ==
    [Handler |-> handler, Workers |-> numWorkers, abort |-> 1, Close |-> TRUE]

\* A struct literal &WorkPool{Handler, Workers[, Close]}: abort stays nil.
StructLiteral(numWorkers, handler, close) ==
    [Handler |-> handler, Workers |-> numWorkers, abort |-> 0, Close |-> close]

\* The handlers a pool is given: "returnsFalse" is the handler of the
\* examples, which does one piece of work and returns false on every call;
\* "any" is a handler free to return true or false, or not to return.
Handlers == {"returnsFalse", "any"}

\* The abort channel is closed: a receive from it is ready.
Signaled == p.abort # 0 /\ p.abort \in closedCh

Alive == fault = "none"

Inc(n) == IF n < MaxCalls THEN n + 1 ELSE n

Init ==
    /\ \E n \in 0..MaxWorkers : \E h \in Handlers :
          \/ p = New(n, h) /\ ctor = "New"
          \/ p = NewWithClose(n, h) /\ ctor = "NewWithClose"
          \/ \E c \in BOOLEAN : p = StructLiteral(n, h, c) /\ ctor = "struct"
    /\ chans = (IF p.abort = 0 THEN 0 ELSE 1)
    /\ closedCh = {}
    /\ runPc = "idle"
    /\ runs = 0
    /\ signaledAtCall = FALSE
    /\ deferClose = FALSE
    /\ wg = 0
    /\ i = 0
    /\ wpc = [w \in WorkerIds |-> "unborn"]
    /\ calls = [w \in WorkerIds |-> 0]
    /\ lateCalls = [w \in WorkerIds |-> 0]
    /\ foundWork = [w \in WorkerIds |-> "unset"]
    /\ exitReason = [w \in WorkerIds |-> "none"]
    /\ closeCalls = 0
    /\ cpc = [c \in CancelIds |-> "idle"]
    /\ fault = "none"

\* ---------------------------------------------------------------- Run
\* The caller enters Run (the first call, or a call after the previous Run
\* returned).  The goroutines of the previous Run have all exited; the new
\* Run has its own WaitGroup and its own workers.
RunCall ==
    /\ Alive
    /\ runPc \in {"idle", "returned"}
    /\ runs < MaxRuns
    /\ \A w \in WorkerIds : exitReason[w] # "panic"
    /\ runPc' = "alloc"
    /\ runs' = runs + 1
    /\ signaledAtCall' = Signaled
    /\ deferClose' = FALSE
    /\ wg' = 0
    /\ i' = 0
    /\ closeCalls' = 0
    /\ wpc' = [w \in WorkerIds |-> "unborn"]
    /\ calls' = [w \in WorkerIds |-> 0]
    /\ lateCalls' = [w \in WorkerIds |-> 0]
    /\ foundWork' = [w \in WorkerIds |-> "unset"]
    /\ exitReason' = [w \in WorkerIds |-> "none"]
    /\ UNCHANGED <<p, ctor, chans, closedCh, cpc, fault>>

\* A faulty RunAlloc that makes a new channel on every Run, without the nil test.
RunAllocAlways ==
    /\ Alive
    /\ runPc = "alloc"
    /\ chans' = chans + 1
    /\ p' = [p EXCEPT !.abort = chans + 1]
    /\ runPc' = "start"
    /\ UNCHANGED <<ctor, closedCh, runs, signaledAtCall, deferClose, wg, i, closeCalls,
                   workerVars, cpc, fault>>

\* A faulty RunAlloc without the lazy allocation: the channel stays as it is.
RunAllocNever ==
    /\ Alive
    /\ runPc = "alloc"
    /\ runPc' = "start"
    /\ UNCHANGED <<p, ctor, chans, closedCh, runs, signaledAtCall, deferClose, wg, i,
                   closeCalls, workerVars, cpc, fault>>

\* if p.abort == nil { p.abort = make(chan struct{}) }
RunAlloc ==
    /\ Alive
    /\ runPc = "alloc"
    /\ IF p.abort = 0
          THEN /\ chans' = chans + 1
               /\ p' = [p EXCEPT !.abort = chans + 1]
          ELSE UNCHANGED <<p, chans>>
    /\ runPc' = "start"
    /\ UNCHANGED <<ctor, closedCh, runs, signaledAtCall, deferClose, wg, i, closeCalls,
                   workerVars, cpc, fault>>

\* A faulty RunStart that calls p.Close() at once instead of deferring it.
RunStartCloseNow ==
    /\ Alive
    /\ runPc = "start"
    /\ deferClose' = FALSE
    /\ closeCalls' = (IF p.Close THEN closeCalls + 1 ELSE closeCalls)
    /\ wg' = p.Workers
    /\ i' = 0
    /\ runPc' = "spawn"
    /\ UNCHANGED <<p, ctor, chans, closedCh, runs, signaledAtCall,
                   workerVars, cpc, fault>>

\* if p.Close != nil { defer p.Close() }; var wg; wg.Add(p.Workers)
RunStart ==
    /\ Alive
    /\ runPc = "start"
    /\ deferClose' = p.Close
    /\ wg' = p.Workers
    /\ i' = 0
    /\ runPc' = "spawn"
    /\ UNCHANGED <<p, ctor, chans, closedCh, runs, signaledAtCall, closeCalls,
                   workerVars, cpc, fault>>

\* A faulty spawn loop with the test i <= p.Workers: one goroutine too many.
RunSpawnOneMore ==
    /\ Alive
    /\ runPc = "spawn"
    /\ i <= p.Workers
    /\ i < MaxWorkers
    /\ wpc' = [wpc EXCEPT ![i + 1] = "poll"]
    /\ i' = i + 1
    /\ UNCHANGED <<p, ctor, chans, closedCh, runPc, runs, signaledAtCall, deferClose, wg,
                   closeCalls, calls, lateCalls, foundWork, exitReason, cpc, fault>>

\* for i := 0; i < p.Workers; i++ { go func() {...}() }
RunSpawn ==
    /\ Alive
    /\ runPc = "spawn"
    /\ i < p.Workers
    /\ wpc' = [wpc EXCEPT ![i + 1] = "poll"]
    /\ i' = i + 1
    /\ UNCHANGED <<p, ctor, chans, closedCh, runPc, runs, signaledAtCall, deferClose, wg,
                   closeCalls, calls, lateCalls, foundWork, exitReason, cpc, fault>>

\* A faulty RunWait that does not wait for the counter to reach zero.
RunWaitNoBarrier ==
    /\ Alive
    /\ runPc = "spawn"
    /\ ~(i < p.Workers)
    /\ IF deferClose
          THEN runPc' = "close" /\ closeCalls' = closeCalls + 1
          ELSE runPc' = "returned" /\ UNCHANGED closeCalls
    /\ UNCHANGED <<p, ctor, chans, closedCh, runs, signaledAtCall, deferClose, wg, i,
                   workerVars, cpc, fault>>

\* A faulty RunWait that also stops waiting when the abort channel is closed.
RunWaitOrAbort ==
    /\ Alive
    /\ runPc = "spawn"
    /\ ~(i < p.Workers)
    /\ wg = 0 \/ Signaled
    /\ IF deferClose
          THEN runPc' = "close" /\ closeCalls' = closeCalls + 1
          ELSE runPc' = "returned" /\ UNCHANGED closeCalls
    /\ UNCHANGED <<p, ctor, chans, closedCh, runs, signaledAtCall, deferClose, wg, i,
                   workerVars, cpc, fault>>

\* The loop is over and wg.Wait() returns: the counter is zero.  Run
\* returns, which runs the deferred Close if there is one.
RunWait ==
    /\ Alive
    /\ runPc = "spawn"
    /\ ~(i < p.Workers)
    /\ wg = 0
    /\ IF deferClose
          THEN runPc' = "close" /\ closeCalls' = closeCalls + 1
          ELSE runPc' = "returned" /\ UNCHANGED closeCalls
    /\ UNCHANGED <<p, ctor, chans, closedCh, runs, signaledAtCall, deferClose, wg, i,
                   workerVars, cpc, fault>>

\* The deferred Close returns, and with it Run.
CloseReturn ==
    /\ Alive
    /\ runPc = "close"
    /\ runPc' = "returned"
    /\ UNCHANGED <<p, ctor, chans, closedCh, runs, signaledAtCall, deferClose, wg, i, closeCalls,
                   workerVars, cpc, fault>>

\* ---------------------------------------------------------------- worker
\* A faulty poll that never looks at the abort channel.
WorkerPollBlind(w) ==
    /\ Alive
    /\ wpc[w] = "poll"
    /\ wpc' = [wpc EXCEPT ![w] = "call"]
    /\ UNCHANGED <<p, ctor, chans, closedCh, runVars, calls, lateCalls, foundWork, exitReason,
                   cpc, fault>>

\* A faulty poll that also takes the return branch while the worker has no
\* handler result yet: the worker returns before its first call.
WorkerPollEarlyReturn(w) ==
    /\ Alive
    /\ wpc[w] = "poll"
    /\ IF Signaled \/ foundWork[w] = "unset"
          THEN /\ wpc' = [wpc EXCEPT ![w] = "exiting"]
               /\ exitReason' = [exitReason EXCEPT ![w] = "abort"]
          ELSE /\ wpc' = [wpc EXCEPT ![w] = "call"]
               /\ UNCHANGED exitReason
    /\ UNCHANGED <<p, ctor, chans, closedCh, runVars, calls, lateCalls, foundWork,
                   cpc, fault>>

\* select { case <-p.abort: return; default: ... }: the receive is taken
\* when the channel is closed, the default branch otherwise.
WorkerPoll(w) ==
    /\ Alive
    /\ wpc[w] = "poll"
    /\ IF Signaled
          THEN /\ wpc' = [wpc EXCEPT ![w] = "exiting"]
               /\ exitReason' = [exitReason EXCEPT ![w] = "abort"]
          ELSE /\ wpc' = [wpc EXCEPT ![w] = "call"]
               /\ UNCHANGED exitReason
    /\ UNCHANGED <<p, ctor, chans, closedCh, runVars, calls, lateCalls, foundWork,
                   cpc, fault>>

\* The default branch calls handler(p.abort).
HandlerCall(w) ==
    /\ Alive
    /\ wpc[w] = "call"
    /\ wpc' = [wpc EXCEPT ![w] = "handler"]
    /\ calls' = [calls EXCEPT ![w] = Inc(calls[w])]
    /\ lateCalls' = [lateCalls EXCEPT ![w] = IF Signaled THEN Inc(lateCalls[w]) ELSE lateCalls[w]]
    /\ UNCHANGED <<p, ctor, chans, closedCh, runVars, foundWork, exitReason,
                   cpc, fault>>

\* A faulty loop with the test inverted: if foundWork { return }.
HandlerReturnInverted(w, b) ==
    /\ Alive
    /\ wpc[w] = "handler"
    /\ p.Handler = "returnsFalse" => ~b
    /\ IF ~b
          THEN /\ foundWork' = [foundWork EXCEPT ![w] = "false"]
               /\ wpc' = [wpc EXCEPT ![w] = "poll"]
               /\ UNCHANGED exitReason
          ELSE /\ foundWork' = [foundWork EXCEPT ![w] = "true"]
               /\ wpc' = [wpc EXCEPT ![w] = "exiting"]
               /\ exitReason' = [exitReason EXCEPT ![w] = "false"]
    /\ UNCHANGED <<p, ctor, chans, closedCh, runVars, calls, lateCalls, cpc, fault>>

\* A faulty loop in which the worker whose handler returned false closes the
\* abort channel to stop the others.
HandlerReturnCancels(w, b) ==
    /\ Alive
    /\ wpc[w] = "handler"
    /\ p.Handler = "returnsFalse" => ~b
    /\ IF b
          THEN /\ foundWork' = [foundWork EXCEPT ![w] = "true"]
               /\ wpc' = [wpc EXCEPT ![w] = "poll"]
               /\ UNCHANGED <<exitReason, closedCh>>
          ELSE /\ foundWork' = [foundWork EXCEPT ![w] = "false"]
               /\ wpc' = [wpc EXCEPT ![w] = "exiting"]
               /\ exitReason' = [exitReason EXCEPT ![w] = "false"]
               /\ closedCh' = closedCh \cup {p.abort}
    /\ UNCHANGED <<p, ctor, chans, runVars, calls, lateCalls, cpc, fault>>

\* foundWork := handler(p.abort); if !foundWork { return }
HandlerReturn(w, b) ==
    /\ Alive
    /\ wpc[w] = "handler"
    /\ p.Handler = "returnsFalse" => ~b
    /\ IF b
          THEN /\ foundWork' = [foundWork EXCEPT ![w] = "true"]
               /\ wpc' = [wpc EXCEPT ![w] = "poll"]
               /\ UNCHANGED exitReason
          ELSE /\ foundWork' = [foundWork EXCEPT ![w] = "false"]
               /\ wpc' = [wpc EXCEPT ![w] = "exiting"]
               /\ exitReason' = [exitReason EXCEPT ![w] = "false"]
    /\ UNCHANGED <<p, ctor, chans, closedCh, runVars, calls, lateCalls, cpc, fault>>

\* A faulty worker without the deferred wg.Done().
WorkerDoneNoRelease(w) ==
    /\ Alive
    /\ wpc[w] = "exiting"
    /\ wpc' = [wpc EXCEPT ![w] = "exited"]
    /\ UNCHANGED <<p, ctor, chans, closedCh, runVars,
                   calls, lateCalls, foundWork, exitReason, cpc, fault>>

\* A faulty worker that calls wg.Done() at the end of the function body
\* instead of deferring it: a panic unwinds past it.
WorkerDoneNotDeferred(w) ==
    /\ Alive
    /\ wpc[w] = "exiting"
    /\ wpc' = [wpc EXCEPT ![w] = "exited"]
    /\ wg' = (IF exitReason[w] = "panic" THEN wg ELSE wg - 1)
    /\ UNCHANGED <<p, ctor, chans, closedCh, runPc, runs, signaledAtCall, deferClose, i,
                   closeCalls, calls, lateCalls, foundWork, exitReason, cpc, fault>>

\* defer wg.Done(): runs as the goroutine returns, and as a panic unwinds it.
WorkerDone(w) ==
    /\ Alive
    /\ wpc[w] = "exiting"
    /\ wpc' = [wpc EXCEPT ![w] = "exited"]
    /\ wg' = wg - 1
    /\ UNCHANGED <<p, ctor, chans, closedCh, runPc, runs, signaledAtCall, deferClose, i, closeCalls,
                   calls, lateCalls, foundWork, exitReason, cpc, fault>>

\* The handler panics (a handler free to do anything may): the panic
\* unwinds the goroutine, which runs its deferred calls.
HandlerPanic(w) ==
    /\ Alive
    /\ wpc[w] = "handler"
    /\ p.Handler = "any"
    /\ wpc' = [wpc EXCEPT ![w] = "exiting"]
    /\ exitReason' = [exitReason EXCEPT ![w] = "panic"]
    /\ UNCHANGED <<p, ctor, chans, closedCh, runVars, calls, lateCalls, foundWork,
                   cpc, fault>>

\* The panic, unwound to the top of the goroutine with nothing recovering
\* it, ends the process.  The other goroutines run until it does.
Crash(w) ==
    /\ Alive
    /\ wpc[w] = "exited"
    /\ exitReason[w] = "panic"
    /\ fault' = "panic in handler"
    /\ UNCHANGED <<p, ctor, chans, closedCh, runVars, workerVars, cpc>>

\* ---------------------------------------------------------------- Cancel
\* A guarded Cancel: a call on an already closed channel does nothing.
CancelIdempotent(c) ==
    /\ Alive
    /\ cpc[c] = "idle"
    /\ \A d \in CancelIds : d < c => cpc[d] # "idle"
    /\ IF p.abort = 0
          THEN /\ fault' = "close of nil channel"
               /\ cpc' = [cpc EXCEPT ![c] = "panicked"]
               /\ UNCHANGED closedCh
          ELSE /\ closedCh' = closedCh \cup {p.abort}
               /\ cpc' = [cpc EXCEPT ![c] = "done"]
               /\ UNCHANGED fault
    /\ UNCHANGED <<p, ctor, chans, runVars, workerVars>>

\* A guarded Cancel: a call on a pool without a channel does nothing.
CancelNilGuard(c) ==
    /\ Alive
    /\ cpc[c] = "idle"
    /\ \A d \in CancelIds : d < c => cpc[d] # "idle"
    /\ IF p.abort = 0
          THEN /\ cpc' = [cpc EXCEPT ![c] = "done"]
               /\ UNCHANGED <<closedCh, fault>>
          ELSE IF p.abort \in closedCh
          THEN /\ fault' = "close of closed channel"
               /\ cpc' = [cpc EXCEPT ![c] = "panicked"]
               /\ UNCHANGED closedCh
          ELSE /\ closedCh' = closedCh \cup {p.abort}
               /\ cpc' = [cpc EXCEPT ![c] = "done"]
               /\ UNCHANGED fault
    /\ UNCHANGED <<p, ctor, chans, runVars, workerVars>>

\* close(p.abort): panics on a nil channel and on a closed channel, and
\* closes the channel otherwise.  Nothing orders the read of p.abort with
\* Run's assignment to it: the call sees nil when it comes before RunAlloc
\* and the channel when it comes after.  Calls are numbered in the order in
\* which they reach close.
Cancel(c) ==
    /\ Alive
    /\ cpc[c] = "idle"
    /\ \A d \in CancelIds : d < c => cpc[d] # "idle"
    /\ IF p.abort = 0
          THEN /\ fault' = "close of nil channel"
               /\ cpc' = [cpc EXCEPT ![c] = "panicked"]
               /\ UNCHANGED closedCh
          ELSE IF p.abort \in closedCh
          THEN /\ fault' = "close of closed channel"
               /\ cpc' = [cpc EXCEPT ![c] = "panicked"]
               /\ UNCHANGED closedCh
          ELSE /\ closedCh' = closedCh \cup {p.abort}
               /\ cpc' = [cpc EXCEPT ![c] = "done"]
               /\ UNCHANGED fault
    /\ UNCHANGED <<p, ctor, chans, runVars, workerVars>>

\* ---------------------------------------------------------------- system
Next ==
    \/ RunCall
    \/ RunAlloc
    \/ RunStart
    \/ RunSpawn
    \/ RunWait
    \/ CloseReturn
    \/ \E w \in WorkerIds : WorkerPoll(w)
    \/ \E w \in WorkerIds : HandlerCall(w)
    \/ \E w \in WorkerIds : \E b \in BOOLEAN : HandlerReturn(w, b)
    \/ \E w \in WorkerIds : WorkerDone(w)
    \/ \E c \in CancelIds : Cancel(c)

Spec == Init /\ [][Next]_vars

\* The system with handlers that may panic.
NextFault ==
    \/ Next
    \/ \E w \in WorkerIds : HandlerPanic(w)
    \/ \E w \in WorkerIds : Crash(w)

FaultSpec == Init /\ [][NextFault]_vars

\* ---------------------------------------------------------------- derived
\* Number of Cancel calls made so far.
CancelCalls == Cardinality({c \in CancelIds : cpc[c] # "idle"})

\* Run has been entered and has not returned.
RunInProgress == runPc \in {"alloc", "start", "spawn", "close"}

\* The workers of the current Run.
PoolWorkers == 1..p.Workers

TypeOK ==
    /\ p.Workers \in 0..MaxWorkers
    /\ p.abort \in 0..chans
    /\ closedCh \subseteq 1..chans
    /\ runPc \in {"idle", "alloc", "start", "spawn", "close", "returned"}
    /\ runs \in 0..MaxRuns
    /\ wg \in 0..MaxWorkers
    /\ i \in 0..MaxWorkers
    /\ \A w \in WorkerIds : wpc[w] \in {"unborn", "poll", "call", "handler", "exiting", "exited"}
    /\ \A w \in WorkerIds : calls[w] \in 0..MaxCalls
    /\ \A w \in WorkerIds : lateCalls[w] \in 0..MaxCalls
    /\ signaledAtCall \in BOOLEAN
    /\ p.Handler \in Handlers
    /\ \A c \in CancelIds : cpc[c] \in {"idle", "done", "panicked"}

\* ---------------------------------------------------------------- fairness
\* The Go scheduler runs every runnable goroutine: each step of Run, of a
\* worker's loop that can be taken is taken.  The deferred Close returns.
Scheduling ==
    /\ WF_vars(RunAlloc)
    /\ WF_vars(RunStart)
    /\ WF_vars(RunSpawn)
    /\ WF_vars(RunWait)
    /\ WF_vars(CloseReturn)
    /\ \A w \in WorkerIds : WF_vars(WorkerPoll(w))
    /\ \A w \in WorkerIds : WF_vars(HandlerCall(w))
    /\ \A w \in WorkerIds : WF_vars(WorkerDone(w))

\* A handler whose every invocation terminates and which, for every worker,
\* eventually returns false.
HandlerFinishes ==
    /\ \A w \in WorkerIds : WF_vars(\E b \in BOOLEAN : HandlerReturn(w, b))
    /\ \A w \in WorkerIds : SF_vars(HandlerReturn(w, FALSE))

\* A handler that may block or return true for ever, but returns once the
\* abort channel is closed.
HandlerObservesAbort ==
    \A w \in WorkerIds : WF_vars(Signaled /\ \E b \in BOOLEAN : HandlerReturn(w, b))

SchedSpec == Init /\ [][Next]_vars /\ Scheduling

LiveSpec == Init /\ [][Next]_vars /\ Scheduling /\ HandlerFinishes

\* The program whose caller never calls Cancel: Run, its workers and a
\* handler that finishes, fairly scheduled.
NextNoCancel ==
    \/ RunCall
    \/ RunAlloc
    \/ RunStart
    \/ RunSpawn
    \/ RunWait
    \/ CloseReturn
    \/ \E w \in WorkerIds : WorkerPoll(w)
    \/ \E w \in WorkerIds : HandlerCall(w)
    \/ \E w \in WorkerIds : \E b \in BOOLEAN : HandlerReturn(w, b)
    \/ \E w \in WorkerIds : WorkerDone(w)

NoCancelSpec == Init /\ [][NextNoCancel]_vars /\ Scheduling /\ HandlerFinishes

AbortLiveSpec == Init /\ [][Next]_vars /\ Scheduling /\ HandlerObservesAbort

\* ---------------------------------------------------------------- properties
Exited(w) == wpc[w] \in {"exiting", "exited"}

\* C1: once wg.Wait() has returned (Run is in its deferred Close or has
\* returned), every one of the p.Workers goroutines has exited, through the
\* return after a false result or the return on the closed abort channel,
\* no other goroutine exists and no handler invocation is in flight.
C1_RunReturnsAfterWorkersExit ==
    runPc \in {"close", "returned"} =>
        /\ \A w \in PoolWorkers :
              /\ wpc[w] = "exited"
              /\ exitReason[w] \in {"false", "abort"}
              /\ exitReason[w] = "false" => foundWork[w] = "false"
              /\ exitReason[w] = "abort" => Signaled /\ foundWork[w] # "false"
        /\ \A w \in WorkerIds \ PoolWorkers : wpc[w] = "unborn"
        /\ wg = 0

C1_Witness ==
    /\ runPc = "returned"
    /\ p.Workers >= 2
    /\ \E w \in PoolWorkers : exitReason[w] = "false" /\ calls[w] >= 2
    /\ \E w \in PoolWorkers : exitReason[w] = "abort" /\ calls[w] >= 1

\* C2: with Close configured, Close is invoked at most once in a Run, only
\* after every worker has exited, and exactly once by the time Run returns.
C2_CloseOnceAfterWorkers ==
    p.Close =>
        /\ closeCalls <= 1
        /\ runPc \in {"close", "returned"} => closeCalls = 1
        /\ runPc \in {"alloc", "start", "spawn"} => closeCalls = 0
        /\ closeCalls >= 1 =>
              /\ \A w \in PoolWorkers : wpc[w] = "exited"
              /\ \A w \in WorkerIds \ PoolWorkers : wpc[w] = "unborn"

C2_Witness ==
    /\ p.Close
    /\ runPc = "returned"
    /\ closeCalls = 1
    /\ p.Workers >= 2
    /\ \E w \in PoolWorkers : exitReason[w] = "abort"
    /\ \E w \in PoolWorkers : exitReason[w] = "false"

\* C3: when Cancel is never called, every handler invocation terminates and
\* every worker's handler eventually returns false, a Run that has been
\* entered returns.
C3_RunReturnsWithoutCancel ==
    RunInProgress ~> (runPc = "returned" \/ CancelCalls > 0)

C3_Witness ==
    /\ runPc = "returned"
    /\ CancelCalls = 0
    /\ p.Workers >= 2
    /\ \A w \in PoolWorkers : calls[w] >= 2 /\ exitReason[w] = "false"

\* C4 as stated: every worker that exits has invoked the handler.
C4_EveryWorkerInvokes ==
    \A w \in PoolWorkers : Exited(w) => calls[w] >= 1

\* C4 amended: a worker exits without having invoked the handler only
\* through the return on the closed abort channel, at its first poll; with
\* the channel not closed every worker that exits has invoked the handler.
C4_InvokesUnlessAborted ==
    \A w \in PoolWorkers :
        /\ Exited(w) /\ calls[w] = 0 =>
              exitReason[w] = "abort" /\ foundWork[w] = "unset" /\ Signaled
        /\ Exited(w) /\ ~Signaled => calls[w] >= 1

C4_Witness ==
    /\ p.Workers >= 2
    /\ \E w \in PoolWorkers : wpc[w] = "exited" /\ calls[w] = 0
    /\ \E w \in PoolWorkers : wpc[w] = "exited" /\ calls[w] >= 1

\* C5 as stated: once the abort channel is closed during a Run, no worker
\* starts a handler invocation.
C5_NoInvocationAfterSignal ==
    [][\A w \in WorkerIds :
          Signaled /\ wpc[w] # "handler" => wpc'[w] # "handler"]_vars

\* C5 amended: once the abort channel is closed, a worker that polls it
\* returns without invoking the handler; an invocation that starts after
\* the close is one whose poll took the default branch before the close.
C5_PollAfterSignalExits ==
    [][\A w \in WorkerIds :
          /\ Signaled /\ wpc[w] = "poll" /\ wpc'[w] # "poll" =>
                wpc'[w] = "exiting" /\ exitReason'[w] = "abort" /\ calls'[w] = calls[w]
          /\ Signaled /\ wpc[w] \in {"exiting", "exited"} /\ runPc' = runPc =>
                wpc'[w] \in {"exiting", "exited"} /\ calls'[w] = calls[w]
          /\ Signaled /\ wpc[w] # "handler" /\ wpc'[w] = "handler" =>
                wpc[w] = "call"]_vars

C5_Witness ==
    /\ Signaled
    /\ RunInProgress
    /\ p.Workers >= 2
    /\ \E w \in PoolWorkers : exitReason[w] = "abort" /\ calls[w] >= 1
    /\ \E w \in PoolWorkers : wpc[w] = "handler"

\* C6: when one Cancel call has closed the abort channel during a Run and
\* every handler invocation returns once the channel is closed (it may
\* return true for ever, or block until then), that Run returns.
C6_RunReturnsAfterCancel ==
    (RunInProgress /\ Signaled) ~> (runPc = "returned" \/ CancelCalls > 1)

C6_Witness ==
    /\ runPc = "returned"
    /\ runs = 1
    /\ CancelCalls = 1
    /\ Signaled
    /\ p.Workers >= 2
    /\ \A w \in PoolWorkers : exitReason[w] = "abort" /\ calls[w] >= 2

\* C7: a worker whose handler returned false takes no further step of the
\* loop; a worker whose handler returned true polls, and its poll leads to
\* a new invocation unless the abort channel is closed, in which case it
\* returns.
C7_LoopFollowsResult ==
    [][\A w \in WorkerIds :
          /\ foundWork[w] = "false" => wpc'[w] \notin {"poll", "call", "handler"}
          /\ wpc[w] = "handler" /\ wpc'[w] # "handler" =>
                IF foundWork'[w] = "true" THEN wpc'[w] = "poll" ELSE wpc'[w] = "exiting"
          /\ wpc[w] = "poll" /\ foundWork[w] = "true" /\ wpc'[w] # "poll" =>
                IF Signaled THEN wpc'[w] = "exiting" ELSE wpc'[w] = "call"
          /\ wpc[w] = "call" /\ wpc'[w] # "call" =>
                wpc'[w] = "handler" /\ calls'[w] = Inc(calls[w])]_vars

C7_Witness ==
    /\ p.Workers >= 2
    /\ \E w \in PoolWorkers : wpc[w] = "handler" /\ foundWork[w] = "true" /\ calls[w] >= 2
    /\ \E w \in PoolWorkers : wpc[w] = "exited" /\ foundWork[w] = "false" /\ calls[w] = 1

\* C8: with Workers == 0 no goroutine is spawned, the handler is never
\* invoked, wg.Wait() does not block, and a configured Close is invoked
\* exactly once before Run returns.
C8_ZeroWorkers ==
    p.Workers = 0 =>
        /\ \A w \in WorkerIds : wpc[w] = "unborn" /\ calls[w] = 0
        /\ runPc = "spawn" /\ Alive => wg = 0 /\ ENABLED RunWait
        /\ closeCalls <= 1
        /\ runPc = "returned" => closeCalls = (IF p.Close THEN 1 ELSE 0)
        /\ runPc = "close" => closeCalls = 1 /\ p.Close

C8_Witness ==
    /\ p.Workers = 0
    /\ p.Close
    /\ runPc = "returned"
    /\ closeCalls = 1

\* C9: the abort channel of a pool, once allocated, is never replaced, a
\* closed channel stays closed, and so the pool, once signaled, stays
\* signaled over every sequence of Run and Cancel calls.
C9_SignalOneShot ==
    [][/\ p.abort # 0 => p'.abort = p.abort
       /\ closedCh \subseteq closedCh'
       /\ Cardinality(closedCh') <= 1
       /\ Signaled => Signaled']_vars

C9_Witness ==
    /\ Signaled
    /\ runs = 2
    /\ runPc = "returned"
    /\ ctor = "struct"

\* C10: on a pool built by New or NewWithClose a single Cancel call does
\* not panic, before, during or after Run, and it closes the abort channel.
C10_SingleCancelNoFault ==
    ctor \in {"New", "NewWithClose"} /\ CancelCalls <= 1 =>
        /\ fault = "none"
        /\ \A c \in CancelIds : cpc[c] # "panicked"
        /\ \A c \in CancelIds : cpc[c] = "done" => Signaled

C10_Witness ==
    /\ ctor = "New"
    /\ CancelCalls = 1
    /\ cpc[1] = "done"
    /\ RunInProgress
    /\ \E w \in PoolWorkers : wpc[w] = "handler"

\* C11: a Cancel call that follows another Cancel call on the same pool
\* panics with "close of closed channel" and ends the process, whichever
\* order two racing calls reach close in: one call closes the channel, the
\* other panics, and no call closes it a second time.
C11_SecondCancelFaults ==
    /\ \A c \in CancelIds : c >= 2 /\ cpc[c] # "idle" =>
          /\ cpc[c] = "panicked"
          /\ fault = "close of closed channel"
          /\ cpc[1] = "done"
          /\ Signaled
    /\ Cardinality({c \in CancelIds : cpc[c] = "done"}) <= 1
    /\ Cardinality({c \in CancelIds : cpc[c] = "panicked"}) <= 1

C11_Witness ==
    /\ cpc[1] = "done"
    /\ cpc[2] = "panicked"
    /\ fault = "close of closed channel"
    /\ runPc = "spawn"
    /\ \E w \in PoolWorkers : wpc[w] = "handler"

\* C12: on a pool built as a struct literal the abort channel is nil until
\* the first Run has executed its allocation; a Cancel call that runs
\* before that panics with "close of nil channel", also when Run has been
\* entered and has not yet allocated, and the first Cancel call that runs
\* after the allocation closes the channel without a panic.
C12_CancelBeforeAlloc ==
    /\ [](ctor = "struct" =>
            /\ p.abort = 0 <=> (runPc = "idle" \/ (runPc = "alloc" /\ runs = 1))
            /\ fault = "close of nil channel" => p.abort = 0 /\ cpc[1] = "panicked")
    /\ [][\A c \in CancelIds :
            ctor = "struct" /\ cpc[c] = "idle" /\ cpc'[c] # "idle" =>
                IF p.abort = 0
                   THEN cpc'[c] = "panicked" /\ fault' = "close of nil channel"
                        /\ closedCh' = closedCh
                   ELSE c = 1 => cpc'[c] = "done" /\ fault' = "none" /\ Signaled']_vars

C12_Witness ==
    /\ ctor = "struct"
    /\ runPc = "alloc"
    /\ fault = "close of nil channel"
    /\ cpc[1] = "panicked"

\* C15: a Cancel call changes nothing but the abort channel: every worker
\* stays where it is, an invocation in flight stays in flight and Run stays
\* where it is.  While a handler invocation is in flight Run has not passed
\* wg.Wait() and Close has not been invoked, however many workers have
\* exited: an invocation that never returns keeps Run from returning.
C15_CancelIsCooperative ==
    /\ [](\A w \in WorkerIds :
            wpc[w] \in {"call", "handler"} =>
                runPc \notin {"close", "returned"} /\ closeCalls = 0 /\ wg >= 1)
    /\ [][(\E c \in CancelIds : cpc'[c] # cpc[c]) =>
            /\ wpc' = wpc
            /\ runPc' = runPc
            /\ wg' = wg
            /\ calls' = calls
            /\ closeCalls' = closeCalls]_vars

C15_Witness ==
    /\ Signaled
    /\ runPc = "spawn"
    /\ p.Workers >= 2
    /\ p.Close
    /\ \E w \in PoolWorkers : wpc[w] = "handler"
    /\ \E w \in PoolWorkers : wpc[w] = "exited"

\* C16: the step in which a worker's handler returns false, and the step in
\* which that worker leaves, change nothing of the abort channel and
\* nothing of any other worker; another worker that polls with the channel
\* not closed goes on to call the handler.
C16_WorkersIndependent ==
    /\ [](\A v \in WorkerIds :
            wpc[v] = "poll" /\ ~Signaled /\ Alive =>
                ENABLED (WorkerPoll(v) /\ wpc'[v] = "call"))
    /\ [][\A w \in WorkerIds :
            (wpc[w] = "handler" /\ wpc'[w] = "exiting")
               \/ (wpc[w] = "exiting" /\ wpc'[w] = "exited") =>
                /\ p' = p
                /\ closedCh' = closedCh
                /\ \A v \in WorkerIds \ {w} :
                      /\ wpc'[v] = wpc[v]
                      /\ calls'[v] = calls[v]
                      /\ foundWork'[v] = foundWork[v]
                      /\ exitReason'[v] = exitReason[v]]_vars

C16_Witness ==
    /\ p.Workers >= 2
    /\ ~Signaled
    /\ \E w \in PoolWorkers : wpc[w] = "exited" /\ exitReason[w] = "false" /\ calls[w] = 1
    /\ \E v \in PoolWorkers : wpc[v] = "handler" /\ calls[v] >= 2

\* C20: a Run spawns the workers 1..p.Workers and no other: i of them
\* while the loop runs, all of them once it is over; so at most p.Workers
\* invocations are in flight and at most p.Workers workers have exited.
C20_ExactlyWorkersSpawned ==
    /\ \A w \in WorkerIds : wpc[w] # "unborn" <=> (w <= i /\ w \in PoolWorkers /\ runPc \in {"spawn", "close", "returned"})
    /\ i <= p.Workers
    /\ runPc \in {"close", "returned"} => i = p.Workers
    /\ Cardinality({w \in WorkerIds : wpc[w] = "handler"}) <= p.Workers
    /\ Cardinality({w \in WorkerIds : wpc[w] \in {"exiting", "exited"}}) <= p.Workers

C20_Witness ==
    /\ p.Workers = 2
    /\ runPc = "spawn"
    /\ i = p.Workers
    /\ \A w \in PoolWorkers : wpc[w] = "handler"

\* C13: a Run entered with the abort channel already closed invokes the
\* handler zero times: every worker's first poll takes the abort branch.
\* Close, if configured, is invoked once, and under fair scheduling the Run
\* returns (unless a further Cancel call panics and ends the process).
C13_RunAfterSignal ==
    /\ [](signaledAtCall /\ runPc # "idle" =>
            /\ \A w \in WorkerIds :
                  /\ calls[w] = 0
                  /\ wpc[w] \in {"unborn", "poll", "exiting", "exited"}
                  /\ exitReason[w] \in {"none", "abort"}
            /\ closeCalls <= 1
            /\ runPc = "returned" =>
                  /\ closeCalls = (IF p.Close THEN 1 ELSE 0)
                  /\ \A w \in PoolWorkers : wpc[w] = "exited" /\ exitReason[w] = "abort")
    /\ (signaledAtCall /\ RunInProgress) ~> (runPc = "returned" \/ CancelCalls > 1)

C13_Witness ==
    /\ signaledAtCall
    /\ runs = 2
    /\ runPc = "returned"
    /\ p.Workers >= 2
    /\ p.Close
    /\ closeCalls = 1
    /\ CancelCalls = 1

\* Total number of handler invocations started in the current Run.
Invocations ==
    Cardinality({wk \in WorkerIds \X (1..MaxCalls) : wk[2] <= calls[wk[1]]})

\* Items the handler of the examples has delivered: one per returned call.
Items == Cardinality({w \in WorkerIds : foundWork[w] = "false"})

\* C14: with the handler that returns false on every call and no Cancel,
\* no worker invokes the handler twice; when wg.Wait() has returned each of
\* the N workers has made exactly one invocation, N in total, and N items
\* have been delivered before Close runs; Close then runs once, and the Run
\* returns.
C14_OneInvocationPerWorker ==
    /\ [](p.Handler = "returnsFalse" /\ CancelCalls = 0 =>
            /\ \A w \in WorkerIds : calls[w] <= 1
            /\ \A w \in PoolWorkers : Exited(w) => calls[w] = 1 /\ exitReason[w] = "false"
            /\ Invocations <= p.Workers
            /\ runPc \in {"close", "returned"} =>
                  /\ Invocations = p.Workers
                  /\ Items = p.Workers
                  /\ \A w \in PoolWorkers : calls[w] = 1
            /\ closeCalls = (IF p.Close /\ runPc \in {"close", "returned"} THEN 1 ELSE 0))
    /\ (p.Handler = "returnsFalse" /\ RunInProgress) ~>
          (runPc = "returned" \/ CancelCalls > 0)

C14_Witness ==
    /\ p.Handler = "returnsFalse"
    /\ CancelCalls = 0
    /\ p.Workers = 2
    /\ p.Close
    /\ runPc = "returned"
    /\ Invocations = 2
    /\ closeCalls = 1

\* C17: every worker that ends decrements the WaitGroup counter once,
\* whether it returned after a false result, returned on the closed abort
\* channel or was unwound by a panic of the handler: the counter is the
\* number of workers not yet ended, and with every worker ended wg.Wait()
\* does not block.
C17_BarrierReleasedOnEveryExit ==
    /\ [](runPc \in {"spawn", "close", "returned"} =>
            /\ wg = p.Workers - Cardinality({w \in PoolWorkers : wpc[w] = "exited"})
            /\ \A w \in PoolWorkers :
                  wpc[w] = "exited" => exitReason[w] \in {"false", "abort", "panic"}
            /\ (\A w \in PoolWorkers : wpc[w] = "exited") /\ runPc = "spawn" /\ Alive =>
                  ENABLED RunWait)
    /\ [][\A w \in WorkerIds :
            wpc[w] # "exited" /\ wpc'[w] = "exited" => wg' = wg - 1]_vars

C17_Witness ==
    /\ runPc = "spawn"
    /\ p.Workers >= 2
    /\ wg = 0
    /\ Alive
    /\ \E w \in PoolWorkers : wpc[w] = "exited" /\ exitReason[w] = "panic"
    /\ \E w \in PoolWorkers : wpc[w] = "exited" /\ exitReason[w] = "false"

\* C18: on a pool built as a struct literal Run allocates the abort channel
\* before any worker exists, the channel is open when allocated, and from
\* the allocation on the pool is the pool New or NewWithClose builds from
\* the same Workers, Handler and Close.  No step of the system reads how
\* the pool was built, so from there the Run proceeds as on that pool.
C18_StructPoolRunsLikeNew ==
    /\ [](ctor = "struct" =>
            /\ runPc \in {"start", "spawn", "close", "returned"} =>
                  p = (IF p.Close THEN NewWithClose(p.Workers, p.Handler)
                                  ELSE New(p.Workers, p.Handler))
            /\ chans <= 1
            /\ p.abort = 0 =>
                  closedCh = {} /\ \A w \in WorkerIds : wpc[w] = "unborn")
    /\ [][ctor = "struct" /\ p.abort = 0 /\ p'.abort # 0 =>
            /\ runPc = "alloc" /\ runPc' = "start"
            /\ ~Signaled'
            /\ signaledAtCall' = FALSE
            /\ \A w \in WorkerIds : wpc'[w] = "unborn"]_vars

C18_Witness ==
    /\ ctor = "struct"
    /\ p.Handler = "returnsFalse"
    /\ p.Workers = 2
    /\ p.Close
    /\ runPc = "returned"
    /\ closeCalls = 1
    /\ Invocations = 2

\* C19: a worker starts at most one handler invocation with the abort
\* channel already closed, the one whose poll took the default branch
\* before the close; a worker that has made it polls next and returns.  So
\* at most p.Workers invocations start after the close.
C19_AtMostOneLateCall ==
    /\ \A w \in WorkerIds :
          /\ lateCalls[w] <= 1
          /\ Signaled /\ wpc[w] = "call" => lateCalls[w] = 0
          /\ lateCalls[w] = 1 => wpc[w] \in {"handler", "poll", "exiting", "exited"}
    /\ Cardinality({w \in WorkerIds : lateCalls[w] >= 1}) <= p.Workers
    /\ signaledAtCall => \A w \in WorkerIds : lateCalls[w] = 0

C19_Witness ==
    /\ p.Workers = 2
    /\ \A w \in PoolWorkers :
          lateCalls[w] = 1 /\ calls[w] = 2 /\ wpc[w] = "exited" /\ exitReason[w] = "abort"
====
